---- MODULE Spec2Model ----
(***************************************************************************)
(* A model of the AdaptAE online-sequential extreme learning machine       *)
(* autoencoder (src/models/adaptae.py) and of the way the training driver  *)
(* calls it.  Tensors are matrices of exact rationals extended with the    *)
(* IEEE non-finite values, so the recursive least-squares algebra of       *)
(* init_phase and seq_phase is computed, not abstracted.                   *)
(***************************************************************************)
EXTENDS Integers, Sequences, FiniteSets, TLC

(***************************************************************************)
(* Scalars.  A tensor element is a pair <<n, d>>: the rational n/d in      *)
(* lowest terms with d > 0, or one of the non-finite values +inf = <<1,0>>,*)
(* -inf = <<-1,0>>, nan = <<0,0>>.  Rounding is not modelled.              *)
(***************************************************************************)
Abs(x) == IF x < 0 THEN -x ELSE x

Sgn(x) == IF x < 0 THEN -1 ELSE IF x > 0 THEN 1 ELSE 0

RECURSIVE Gcd(_, _)
Gcd(a, b) == IF b = 0 THEN a ELSE Gcd(b, a % b)

Rat(n, d) ==
    IF d = 0 THEN <<Sgn(n), 0>>
    ELSE LET g == Gcd(Abs(n), Abs(d))
         IN  <<Sgn(d) * (n \div g), Abs(d) \div g>>

Zero == <<0, 1>>
One == <<1, 1>>
NaN == <<0, 0>>

IsFinite(a) == a[2] # 0

RAdd(a, b) ==
    IF IsFinite(a) /\ IsFinite(b)
    THEN LET g == Gcd(a[2], b[2])
         IN  Rat(a[1] * (b[2] \div g) + b[1] * (a[2] \div g), a[2] * (b[2] \div g))
    ELSE IF a = NaN \/ b = NaN THEN NaN
    ELSE IF IsFinite(a) THEN b
    ELSE IF IsFinite(b) THEN a
    ELSE IF a = b THEN a ELSE NaN

RNeg(a) == <<-a[1], a[2]>>

RSub(a, b) == RAdd(a, RNeg(b))

RMul(a, b) ==
    IF IsFinite(a) /\ IsFinite(b)
    THEN LET g == Gcd(Abs(a[1]), b[2])
             h == Gcd(Abs(b[1]), a[2])
         IN  Rat((a[1] \div g) * (b[1] \div h), (a[2] \div h) * (b[2] \div g))
    ELSE IF a = NaN \/ b = NaN \/ a = Zero \/ b = Zero THEN NaN
    ELSE <<Sgn(a[1]) * Sgn(b[1]), 0>>

\* torch.div on scalars: x/0 is an infinity, 0/0 and inf/inf are nan.
RDiv(a, b) ==
    IF a = NaN \/ b = NaN THEN NaN
    ELSE IF IsFinite(b)
         THEN IF b[1] = 0
              THEN <<Sgn(a[1]), 0>>
              ELSE IF IsFinite(a) THEN RMul(a, Rat(b[2], b[1]))
                   ELSE <<Sgn(a[1]) * Sgn(b[1]), 0>>
         ELSE IF IsFinite(a) THEN Zero ELSE NaN

(***************************************************************************)
(* Tensors.  A matrix is a sequence of rows, a row a sequence of scalars.  *)
(***************************************************************************)
Rows(A) == Len(A)

Cols(A) == IF Len(A) = 0 THEN 0 ELSE Len(A[1])

RECURSIVE SumTo(_, _)
SumTo(f, n) == IF n = 0 THEN Zero ELSE RAdd(SumTo(f, n - 1), f[n])

\* The sequence <<f[1], ..., f[n]>>, each element evaluated once.
RECURSIVE ToSeq(_, _)
ToSeq(f, n) == IF n = 0 THEN <<>> ELSE Append(ToSeq(f, n - 1), f[n])

\* The r x c matrix with elements f[i][j].
Mat(f, r, c) == ToSeq([i \in 1..r |-> ToSeq(f[i], c)], r)

zeros(r, c) == Mat([i \in 1..r |-> [j \in 1..c |-> Zero]], r, c)

eye(n) == Mat([i \in 1..n |-> [j \in 1..n |-> IF i = j THEN One ELSE Zero]], n, n)

Transpose(A) ==
    Mat([j \in 1..Cols(A) |-> [i \in 1..Rows(A) |-> A[i][j]]], Cols(A), Rows(A))

matmul(A, B) ==
    Mat([i \in 1..Rows(A) |->
            [j \in 1..Cols(B) |->
                SumTo(ToSeq([k \in 1..Cols(A) |-> RMul(A[i][k], B[k][j])], Cols(A)),
                      Cols(A))]],
        Rows(A), Cols(B))

MAdd(A, B) ==
    Mat([i \in 1..Rows(A) |-> [j \in 1..Cols(A) |-> RAdd(A[i][j], B[i][j])]],
        Rows(A), Cols(A))

MSub(A, B) ==
    Mat([i \in 1..Rows(A) |-> [j \in 1..Cols(A) |-> RSub(A[i][j], B[i][j])]],
        Rows(A), Cols(A))

MScale(c, A) ==
    Mat([i \in 1..Rows(A) |-> [j \in 1..Cols(A) |-> RMul(c, A[i][j])]],
        Rows(A), Cols(A))

Trace(A) == SumTo([k \in 1..Rows(A) |-> A[k][k]], Rows(A))

IsFiniteMat(A) == \A i \in 1..Rows(A) : \A j \in 1..Cols(A) : IsFinite(A[i][j])

(***************************************************************************)
(* torch.linalg.pinv, the Moore-Penrose pseudoinverse, computed exactly.   *)
(* A square matrix of non-zero determinant has its inverse, adj(A)/det(A). *)
(* Any other matrix goes through the Faddeev-LeVerrier recursion on        *)
(* B = A^T A: with B_0 = I, A_j = B B_(j-1), a_j = -tr(A_j)/j,             *)
(* B_j = A_j + a_j I and r the last index with a_r # 0,                    *)
(* pinv(A) = -(1/a_r) B_(r-1) A^T, and 0 when r = 0.                       *)
(***************************************************************************)
\* A without row i and column j.
Minor(A, i, j) ==
    Mat([r \in 1..(Rows(A) - 1) |-> [c \in 1..(Cols(A) - 1) |->
            A[IF r < i THEN r ELSE r + 1][IF c < j THEN c ELSE c + 1]]],
        Rows(A) - 1, Cols(A) - 1)

RECURSIVE Det(_)
Det(A) ==
    IF Rows(A) = 0 THEN One
    ELSE SumTo(ToSeq([j \in 1..Cols(A) |->
                        RMul(IF j % 2 = 1 THEN A[1][j] ELSE RNeg(A[1][j]),
                             Det(Minor(A, 1, j)))], Cols(A)),
               Cols(A))

Adjugate(A) ==
    Mat([i \in 1..Rows(A) |-> [j \in 1..Cols(A) |->
            LET m == Det(Minor(A, j, i))
            IN  IF (i + j) % 2 = 0 THEN m ELSE RNeg(m)]],
        Rows(A), Cols(A))

RECURSIVE FaddeevB(_, _)
FaddeevB(B, j) ==
    IF j = 0 THEN eye(Rows(B))
    ELSE LET Aj == matmul(B, FaddeevB(B, j - 1))
             aj == RDiv(RNeg(Trace(Aj)), <<j, 1>>)
         IN  MAdd(Aj, MScale(aj, eye(Rows(B))))

FaddeevA(B, j) == RDiv(RNeg(Trace(matmul(B, FaddeevB(B, j - 1)))), <<j, 1>>)

pinv(A) ==
    IF Rows(A) = Cols(A) /\ Det(A) # Zero
    THEN MScale(RDiv(One, Det(A)), Adjugate(A))
    ELSE LET B == matmul(Transpose(A), A)
             n == Rows(B)
             nz == {j \in 1..n : FaddeevA(B, j) # Zero}
         IN  IF nz = {} THEN zeros(Cols(A), Rows(A))
             ELSE LET r == CHOOSE j \in nz : \A k \in nz : k <= j
                  IN  MScale(RDiv(<<-1, 1>>, FaddeevA(B, r)),
                             matmul(FaddeevB(B, r - 1), Transpose(A)))

(***************************************************************************)
(* Configuration of the checked instance and the inputs the environment    *)
(* may pass.                                                               *)
(***************************************************************************)
n_input_nodes == 2

n_hidden_nodes == 2

\* Longest batch (rows of one data tensor) the environment passes.
MaxRows == 2

\* Number of init_phase / seq_phase calls that pass their checks on one model.
MaxCalls == 2

\* init_phase, seq_phase and predict are called while the numerators and
\* denominators of the tensors they read are at most this large.
MaxEntry == 128

R(n) == <<n, 1>>

InRange(A) ==
    \A i \in 1..Rows(A) : \A j \in 1..Cols(A) :
        Abs(A[i][j][1]) <= MaxEntry /\ A[i][j][2] <= MaxEntry

\* Activation names a caller may pass; "relu" stands for any other name.
ActivationNames == {"tanh", "sigmoid", "relu"}

\* Mode strings a caller may pass; "online" stands for any other string.
ModeNames == {"batch", "sample", "online"}

\* Values nn.init.orthogonal_ can leave in alpha: orthogonal matrices.
AlphaValues ==
    { <<<<R(1), R(0)>>, <<R(0), R(1)>>>>,
      <<<<R(0), R(1)>>, <<R(-1), R(0)>>>> }

\* Values F.normalize can leave in bias: vectors of norm one.
BiasValues == { <<R(1), R(0)>>, <<R(0), R(-1)>> }

\* Rows of width n_input_nodes the data loader holds, and a row that is
\* too wide.
RowValues == { <<R(1), R(0)>>, <<R(1), R(1)>> }

RowAt(k) == IF k % 2 = 1 THEN <<R(1), R(0)>> ELSE <<R(1), R(1)>>

WideRow == <<R(1), R(0), R(1)>>

\* The batch of the first n rows the loader holds.
Batch(n) == ToSeq([k \in 1..n |-> RowAt(k)], n)

\* Batches of the right width: the first n rows, and the second row alone.
GoodData == {Batch(n) : n \in 1..MaxRows} \cup {<<RowAt(2)>>}

DataValues == GoodData \cup {<<WideRow>>}

\* Inputs a reader passes to predict and encoded_representation.
ReadValues == {Batch(1), <<WideRow>>}

(***************************************************************************)
(* The projection H = activation_func(data @ alpha + bias).                *)
(***************************************************************************)
\* torch.tanh on the integers the projection produces here, to the nearest
\* quarter: tanh(1) = 0.76.., tanh(2) = 0.96..
tanh(a) ==
    IF Abs(a[1]) >= 2 * a[2] THEN <<Sgn(a[1]), 1>>
    ELSE IF Abs(a[1]) >= a[2] THEN <<3 * Sgn(a[1]), 4>>
    ELSE Zero

project(d, al, bi) ==
    LET Z == matmul(d, al)
    IN  Mat([i \in 1..Rows(Z) |-> [j \in 1..Cols(Z) |-> tanh(RAdd(Z[i][j], bi[j]))]],
            Rows(Z), Cols(Z))

\* torch.matmul of two matrices raises unless the inner sizes agree.
MatmulOk(A, B) == Cols(A) = Rows(B)

(***************************************************************************)
(* The update formulas, as functions of the tensors they read.             *)
(***************************************************************************)
\* init_phase, line 70
init_p(H) == pinv(matmul(Transpose(H), H))

\* init_phase, lines 71-73, reading the P that line 70 stored
init_beta(P, H, d) == matmul(matmul(P, Transpose(H)), d)

\* calc_p_batch multiplying by H where the code multiplies by HP.
calc_p_batch_NoHP(P, batch_size, H) ==
    LET PH_T == matmul(P, Transpose(H))
        HPH_T_Inv == pinv(MAdd(matmul(H, matmul(P, Transpose(H))), eye(batch_size)))
    IN  MSub(P, matmul(matmul(PH_T, HPH_T_Inv), H))

calc_p_batch(P, batch_size, H) ==
    LET PH_T == matmul(P, Transpose(H))
        I == eye(batch_size)
        HPH_T_Inv == pinv(MAdd(matmul(H, matmul(P, Transpose(H))), I))
        HP == matmul(H, P)
    IN  MSub(P, matmul(matmul(PH_T, HPH_T_Inv), HP))

\* The argument of pinv in calc_p_batch; pinv raises on a non-finite matrix.
calc_p_batch_arg(P, batch_size, H) ==
    MAdd(matmul(H, matmul(P, Transpose(H))), eye(batch_size))

\* calc_beta_batch with the residual taken as the batch itself, H Beta not
\* subtracted.
calc_beta_batch_NoResidual(P, Beta, batch, H) ==
    MAdd(Beta, matmul(matmul(P, Transpose(H)), batch))

calc_beta_batch(P, Beta, batch, H) ==
    LET THB == MSub(batch, matmul(H, Beta))
    IN  MAdd(Beta, matmul(matmul(P, Transpose(H)), THB))

\* torch.div(PHH_TP, 1 + H_TPH) broadcasts an n x n divisor over the
\* hidden x hidden dividend: n = 1 or n = hidden, otherwise it raises.
calc_p_sample_ok(P, H) == Cols(H) = 1 \/ Cols(H) = Rows(P)

\* calc_p_sample dividing by H_TPH instead of 1 + H_TPH.
calc_p_sample_NoOne(P, H) ==
    LET PH == matmul(P, H)
        PHH_TP == matmul(matmul(PH, Transpose(H)), P)
        H_TPH == matmul(Transpose(H), matmul(P, H))
        n == Cols(H)
    IN  Mat([i \in 1..Rows(P) |-> [j \in 1..Cols(P) |->
                RSub(P[i][j],
                     RDiv(PHH_TP[i][j],
                          IF n = 1 THEN H_TPH[1][1] ELSE H_TPH[i][j]))]],
            Rows(P), Cols(P))

\* H is the transposed hidden matrix (hidden x n) seq_phase passes.
calc_p_sample(P, H) ==
    LET PH == matmul(P, H)
        PHH_T == matmul(PH, Transpose(H))
        PHH_TP == matmul(PHH_T, P)
        H_TPH == matmul(Transpose(H), matmul(P, H))
        n == Cols(H)
    IN  Mat([i \in 1..Rows(P) |-> [j \in 1..Cols(P) |->
                RSub(P[i][j],
                     RDiv(PHH_TP[i][j],
                          RAdd(One, IF n = 1 THEN H_TPH[1][1] ELSE H_TPH[i][j])))]],
            Rows(P), Cols(P))

calc_beta_sample(P, Beta, sample, H) ==
    LET THB == MSub(sample, matmul(Transpose(H), Beta))
        PH_T == matmul(P, H)
    IN  MAdd(Beta, matmul(PH_T, THB))

\* seq_phase in batch mode, lines 88-95: P is stored, then Beta from it.
seq_batch(P, Beta, d, al, bi) ==
    LET h == project(d, al, bi)
        P1 == calc_p_batch(P, Rows(d), h)
    IN  <<P1, calc_beta_batch(P1, Beta, d, h)>>

\* seq_phase in sample mode, lines 88 and 97-99.
seq_sample(P, Beta, d, al, bi) ==
    LET h == project(d, al, bi)
        P1 == calc_p_sample(P, Transpose(h))
    IN  <<P1, calc_beta_sample(P1, Beta, d, Transpose(h))>>

\* The loop of train_sequential in sample mode over the first k rows of d:
\* one seq_phase call per row, in order.
RECURSIVE seq_sample_each(_, _, _, _, _, _)
seq_sample_each(P, Beta, d, k, al, bi) ==
    IF k = 0 THEN <<P, Beta>>
    ELSE LET s == seq_sample_each(P, Beta, d, k - 1, al, bi)
         IN  seq_sample(s[1], s[2], <<d[k]>>, al, bi)

\* predict, lines 54-55
predict(test_data, al, bi, Beta) == matmul(project(test_data, al, bi), Beta)

(***************************************************************************)
(* State.  The model object's fields, the frame of the init_phase or       *)
(* seq_phase call in progress, and the outcome of the latest call.         *)
(***************************************************************************)
VARIABLES
    built,            \* an AdaptAE object exists
    activation_func,  \* self.__activation_func
    alpha,            \* self.__alpha
    bias,             \* self.__bias
    p,                \* self.__p
    beta,             \* self.__beta
    pc,               \* statement the call in progress is at, "idle" if none
    data,             \* the call's data argument
    mode,             \* the call's mode argument
    H,                \* the call's local H
    calls,            \* init_phase / seq_phase calls that passed their checks
    last,             \* the step taken last: operation, data, string argument
    out,              \* value the latest finished call returned, <<>> if it raised
    err,              \* exception the latest finished call raised, "none" if it returned
    alpha_0,          \* alpha as the constructor left it
    bias_0,           \* bias as the constructor left it
    p_pre,            \* P when the current or latest init_phase / seq_phase call began
    beta_pre,         \* Beta when that call began
    beta_id,          \* identity of the tensor object self.__beta is bound to
    kept,             \* the first value a caller got back from init_phase / seq_phase:
                      \* the object's identity and its contents now
    drv_pc,           \* the training driver's position in main
    args,             \* what get_args returned
    train_loader,     \* batches of the initial training loader
    seq_loader,       \* batches of the sequential training loader
    batch_idx,        \* the loader batch the driver's loop is at
    called            \* the init_phase / seq_phase calls the driver has made

fields == <<built, activation_func, alpha, bias, p, beta>>

frame == <<pc, data, mode, H>>

history == <<alpha_0, bias_0, p_pre, beta_pre>>

aliasing == <<beta_id, kept>>

driver == <<drv_pc, args, train_loader, seq_loader, batch_idx, called>>

vars == <<built, activation_func, alpha, bias, p, beta, pc, data, mode, H,
          calls, last, out, err, alpha_0, bias_0, p_pre, beta_pre,
          beta_id, kept, drv_pc, args, train_loader, seq_loader, batch_idx, called>>

\* No value kept yet.
NoRef == [id |-> 0, val |-> <<>>]

\* What the caller's kept value is once the tensor object id holds b: the
\* first value returned is kept, and a kept reference to the object id shows
\* the object's contents.
KeptAfter(id, b) ==
    IF kept.id = 0 \/ kept.id = id THEN [id |-> id, val |-> b] ELSE kept

\* again: the step is a predict that returned, right after a predict of the
\* same input that returned.
Step(op, d, arg) == [op |-> op, data |-> d, arg |-> arg, again |-> FALSE]

Init ==
    /\ built = FALSE
    /\ activation_func = "none"
    /\ alpha = <<>>
    /\ bias = <<>>
    /\ p = <<>>
    /\ beta = <<>>
    /\ pc = "idle"
    /\ data = <<>>
    /\ mode = ""
    /\ H = <<>>
    /\ calls = 0
    /\ last = Step("none", <<>>, "")
    /\ out = <<>>
    /\ err = "none"
    /\ alpha_0 = <<>>
    /\ bias_0 = <<>>
    /\ p_pre = <<>>
    /\ beta_pre = <<>>
    /\ beta_id = 0
    /\ kept = NoRef
    /\ drv_pc = "main"
    /\ args = <<>>
    /\ train_loader = <<>>
    /\ seq_loader = <<>>
    /\ batch_idx = 0
    /\ called = <<>>

\* The call in progress ends by raising exception e; its frame is dropped.
Raises(op, d, arg, e) ==
    /\ pc' = "idle"
    /\ data' = <<>>
    /\ mode' = ""
    /\ H' = <<>>
    /\ last' = Step(op, d, arg)
    /\ out' = <<>>
    /\ err' = e

\* The call in progress returns self.__beta as the step leaves it.
Returns(op, d, arg) ==
    /\ pc' = "idle"
    /\ data' = <<>>
    /\ mode' = ""
    /\ H' = <<>>
    /\ last' = Step(op, d, arg)
    /\ out' = beta'
    /\ err' = "none"

\* The call moves on to statement l.
Goto(op, l, d, m) ==
    /\ pc' = l
    /\ last' = Step(op, d, m)
    /\ out' = <<>>
    /\ err' = "none"

(***************************************************************************)
(* AdaptAE.__init__                                                        *)
(***************************************************************************)
\* __init__ starting P at the identity, as recursive least squares often does.
Construct_IdentityP(act, al, bi) ==
    /\ ~built
    /\ last' = Step("__init__", <<>>, act)
    /\ out' = <<>>
    /\ IF act = "tanh"
       THEN /\ built' = TRUE
            /\ activation_func' = act
            /\ alpha' = al
            /\ bias' = bi
            /\ p' = eye(n_hidden_nodes)
            /\ beta' = zeros(n_hidden_nodes, n_input_nodes)
            /\ alpha_0' = al
            /\ bias_0' = bi
            /\ err' = "none"
            /\ beta_id' = 1
       ELSE /\ err' = "ValueError"
            /\ UNCHANGED <<fields, alpha_0, bias_0, beta_id>>
    /\ UNCHANGED <<frame, calls, p_pre, beta_pre, kept, driver>>

Construct(act, al, bi) ==
    /\ ~built
    /\ last' = Step("__init__", <<>>, act)
    /\ out' = <<>>
    /\ IF act = "tanh"
       THEN /\ built' = TRUE
            /\ activation_func' = act
            /\ alpha' = al
            /\ bias' = bi
            /\ p' = zeros(n_hidden_nodes, n_hidden_nodes)
            /\ beta' = zeros(n_hidden_nodes, n_input_nodes)
            /\ alpha_0' = al
            /\ bias_0' = bi
            /\ err' = "none"
            /\ beta_id' = 1
       ELSE /\ err' = "ValueError"
            /\ UNCHANGED <<fields, alpha_0, bias_0, beta_id>>
    /\ UNCHANGED <<frame, calls, p_pre, beta_pre, kept, driver>>

(***************************************************************************)
(* AdaptAE.init_phase                                                      *)
(***************************************************************************)
\* lines 65-68: the checks and the projection
InitPhaseCall(d) ==
    /\ built /\ pc = "idle" /\ calls < MaxCalls
    /\ InRange(p) /\ InRange(beta)
    /\ p_pre' = p /\ beta_pre' = beta
    /\ IF Cols(d) # n_input_nodes
       THEN Raises("init_phase", d, "", "AssertionError")
       ELSE LET h == project(d, alpha, bias)
            IN  IF Cols(h) # n_hidden_nodes \/ Rows(h) # Rows(d)
                THEN Raises("init_phase", d, "", "AssertionError")
                ELSE /\ data' = d /\ mode' = "" /\ H' = h
                     /\ Goto("init_phase", "init_p", d, "")
    /\ calls' = IF pc' = "idle" THEN calls ELSE calls + 1
    /\ UNCHANGED <<fields, alpha_0, bias_0>>
    /\ UNCHANGED <<aliasing, driver>>

\* init_phase adding pinv(H^T H) to the stored P instead of replacing it.
InitPhaseP_Accumulate ==
    /\ pc = "init_p"
    /\ p' = MAdd(p, init_p(H))
    /\ Goto("init_phase", "init_beta", data, mode)
    /\ UNCHANGED <<built, activation_func, alpha, bias, beta, data, mode, H,
                   calls, history>>
    /\ UNCHANGED <<aliasing, driver>>

\* line 70
InitPhaseP ==
    /\ pc = "init_p"
    /\ p' = init_p(H)
    /\ Goto("init_phase", "init_beta", data, mode)
    /\ UNCHANGED <<built, activation_func, alpha, bias, beta, data, mode, H,
                   calls, history>>
    /\ UNCHANGED <<aliasing, driver>>

\* lines 71-75
InitPhaseBeta ==
    /\ pc = "init_beta"
    /\ beta' = init_beta(p, H, data)
    /\ Returns("init_phase", data, "")
    /\ UNCHANGED <<built, activation_func, alpha, bias, p, calls, history>>
    /\ beta_id' = beta_id + 1
    /\ kept' = KeptAfter(beta_id', beta')
    /\ UNCHANGED driver

(***************************************************************************)
(* AdaptAE.seq_phase                                                       *)
(***************************************************************************)
\* seq_phase treating every mode other than "batch" as "sample".
SeqPhaseCall_Fallback(d, m) ==
    /\ built /\ pc = "idle" /\ calls < MaxCalls
    /\ InRange(p) /\ InRange(beta)
    /\ p_pre' = p /\ beta_pre' = beta
    /\ IF ~MatmulOk(d, alpha)
       THEN Raises("seq_phase", d, m, "RuntimeError")
       ELSE LET h == project(d, alpha, bias)
            IN  IF m = "batch"
                THEN IF Cols(h) # n_hidden_nodes \/ Cols(d) # n_input_nodes
                     THEN Raises("seq_phase", d, m, "AssertionError")
                     ELSE /\ data' = d /\ mode' = m /\ H' = h
                          /\ Goto("seq_phase", "calc_p_batch", d, m)
                ELSE IF Cols(h) # n_hidden_nodes
                     THEN Raises("seq_phase", d, m, "AssertionError")
                     ELSE /\ data' = d /\ mode' = m /\ H' = h
                          /\ Goto("seq_phase", "calc_p_sample", d, m)
    /\ calls' = IF pc' = "idle" THEN calls ELSE calls + 1
    /\ UNCHANGED <<fields, alpha_0, bias_0>>
    /\ UNCHANGED <<aliasing, driver>>

\* lines 88-101: the projection, the dispatch on mode and its checks
SeqPhaseCall(d, m) ==
    /\ built /\ pc = "idle" /\ calls < MaxCalls
    /\ InRange(p) /\ InRange(beta)
    /\ p_pre' = p /\ beta_pre' = beta
    /\ IF ~MatmulOk(d, alpha)
       THEN Raises("seq_phase", d, m, "RuntimeError")
       ELSE LET h == project(d, alpha, bias)
            IN  IF m = "batch"
                THEN IF Cols(h) # n_hidden_nodes \/ Cols(d) # n_input_nodes
                     THEN Raises("seq_phase", d, m, "AssertionError")
                     ELSE /\ data' = d /\ mode' = m /\ H' = h
                          /\ Goto("seq_phase", "calc_p_batch", d, m)
                ELSE IF m = "sample"
                THEN IF Cols(h) # n_hidden_nodes
                     THEN Raises("seq_phase", d, m, "AssertionError")
                     ELSE /\ data' = d /\ mode' = m /\ H' = h
                          /\ Goto("seq_phase", "calc_p_sample", d, m)
                ELSE Raises("seq_phase", d, m, "ValueError")
    /\ calls' = IF pc' = "idle" THEN calls ELSE calls + 1
    /\ UNCHANGED <<fields, alpha_0, bias_0>>
    /\ UNCHANGED <<aliasing, driver>>

\* line 94
CalcPBatch ==
    /\ pc = "calc_p_batch"
    /\ IF IsFiniteMat(calc_p_batch_arg(p, Rows(data), H))
       THEN /\ p' = calc_p_batch(p, Rows(data), H)
            /\ Goto("seq_phase", "calc_beta_batch", data, mode)
            /\ UNCHANGED <<data, mode, H>>
       ELSE /\ Raises("seq_phase", data, mode, "RuntimeError")
            /\ UNCHANGED p
    /\ UNCHANGED <<built, activation_func, alpha, bias, beta, calls, history>>
    /\ UNCHANGED <<aliasing, driver>>

\* calc_beta_batch reading the P the call found instead of the updated P.
CalcBetaBatch_OldP ==
    /\ pc = "calc_beta_batch"
    /\ beta' = calc_beta_batch(p_pre, beta, data, H)
    /\ Returns("seq_phase", data, mode)
    /\ UNCHANGED <<built, activation_func, alpha, bias, p, calls, history>>
    /\ beta_id' = beta_id
    /\ kept' = KeptAfter(beta_id, beta')
    /\ UNCHANGED driver

\* lines 95 and 103
CalcBetaBatch ==
    /\ pc = "calc_beta_batch"
    /\ beta' = calc_beta_batch(p, beta, data, H)
    /\ Returns("seq_phase", data, mode)
    /\ UNCHANGED <<built, activation_func, alpha, bias, p, calls, history>>
    /\ beta_id' = beta_id
    /\ kept' = KeptAfter(beta_id, beta')
    /\ UNCHANGED driver

\* line 98
CalcPSample ==
    /\ pc = "calc_p_sample"
    /\ IF calc_p_sample_ok(p, Transpose(H))
       THEN /\ p' = calc_p_sample(p, Transpose(H))
            /\ Goto("seq_phase", "calc_beta_sample", data, mode)
            /\ UNCHANGED <<data, mode, H>>
       ELSE /\ Raises("seq_phase", data, mode, "RuntimeError")
            /\ UNCHANGED p
    /\ UNCHANGED <<built, activation_func, alpha, bias, beta, calls, history>>
    /\ UNCHANGED <<aliasing, driver>>

\* calc_beta_sample binding self.__beta to a new tensor (beta = beta + ...)
\* instead of adding in place.
CalcBetaSample_Rebinds ==
    /\ pc = "calc_beta_sample"
    /\ beta' = calc_beta_sample(p, beta, data, Transpose(H))
    /\ Returns("seq_phase", data, mode)
    /\ UNCHANGED <<built, activation_func, alpha, bias, p, calls, history>>
    /\ beta_id' = beta_id + 1
    /\ kept' = KeptAfter(beta_id', beta')
    /\ UNCHANGED driver

\* lines 99 and 103
CalcBetaSample ==
    /\ pc = "calc_beta_sample"
    /\ beta' = calc_beta_sample(p, beta, data, Transpose(H))
    /\ Returns("seq_phase", data, mode)
    /\ UNCHANGED <<built, activation_func, alpha, bias, p, calls, history>>
    /\ beta_id' = beta_id
    /\ kept' = KeptAfter(beta_id, beta')
    /\ UNCHANGED driver

\* The operation a statement belongs to.
OpOf(l) == IF l \in {"init_p", "init_beta"} THEN "init_phase" ELSE "seq_phase"

\* A tensor operation of the statement the call is at fails (the allocator
\* is out of memory, the call is interrupted): the exception propagates and
\* the fields stay as the statements before it left them.
Fail ==
    /\ pc # "idle"
    /\ Raises(OpOf(pc), data, mode, "RuntimeError")
    /\ UNCHANGED <<fields, calls, history>>
    /\ UNCHANGED <<aliasing, driver>>

(***************************************************************************)
(* AdaptAE.predict and AdaptAE.encoded_representation, which a reader may  *)
(* call at any time, also while an update is in progress.                  *)
(***************************************************************************)
\* predict storing its output as Beta.
Predict_StoresOutput(d) ==
    /\ built
    /\ InRange(beta)
    /\ last' = [Step("predict", d, "") EXCEPT
                    !.again = /\ MatmulOk(d, alpha)
                              /\ last.op = "predict"
                              /\ last.data = d
                              /\ err = "none"]
    /\ IF MatmulOk(d, alpha)
       THEN /\ out' = predict(d, alpha, bias, beta) /\ err' = "none"
            /\ beta' = ToSeq([i \in 1..n_hidden_nodes |-> out'[1]], n_hidden_nodes)
       ELSE /\ out' = <<>> /\ err' = "RuntimeError"
            /\ beta' = beta
    /\ UNCHANGED <<built, activation_func, alpha, bias, p, frame, calls, history>>
    /\ UNCHANGED <<aliasing, driver>>

Predict(d) ==
    /\ built
    /\ InRange(beta)
    /\ last' = [Step("predict", d, "") EXCEPT
                    !.again = /\ MatmulOk(d, alpha)
                              /\ last.op = "predict"
                              /\ last.data = d
                              /\ err = "none"]
    /\ IF MatmulOk(d, alpha)
       THEN out' = predict(d, alpha, bias, beta) /\ err' = "none"
       ELSE out' = <<>> /\ err' = "RuntimeError"
    /\ UNCHANGED <<fields, frame, calls, history>>
    /\ UNCHANGED <<aliasing, driver>>

\* encoded_representation writing the projected first row into bias.
EncodedRepresentation_InPlace(d) ==
    /\ built
    /\ last' = Step("encoded_representation", d, "")
    /\ IF MatmulOk(d, alpha)
       THEN /\ out' = project(d, alpha, bias) /\ err' = "none"
            /\ bias' = out'[1]
       ELSE /\ out' = <<>> /\ err' = "RuntimeError"
            /\ bias' = bias
    /\ UNCHANGED <<built, activation_func, alpha, p, beta, frame, calls, history>>
    /\ UNCHANGED <<aliasing, driver>>

EncodedRepresentation(d) ==
    /\ built
    /\ last' = Step("encoded_representation", d, "")
    /\ IF MatmulOk(d, alpha)
       THEN out' = project(d, alpha, bias) /\ err' = "none"
       ELSE out' = <<>> /\ err' = "RuntimeError"
    /\ UNCHANGED <<fields, frame, calls, history>>
    /\ UNCHANGED <<aliasing, driver>>

Next ==
    \/ \E act \in ActivationNames, al \in AlphaValues, bi \in BiasValues :
          Construct(act, al, bi)
    \/ \E d \in DataValues : InitPhaseCall(d)
    \/ InitPhaseP
    \/ InitPhaseBeta
    \/ \E d \in DataValues, m \in ModeNames : SeqPhaseCall(d, m)
    \/ CalcPBatch
    \/ CalcBetaBatch
    \/ CalcPSample
    \/ CalcBetaSample
    \/ Fail
    \/ \E d \in ReadValues : Predict(d)
    \/ \E d \in ReadValues : EncodedRepresentation(d)

Spec == Init /\ [][Next]_vars

(***************************************************************************)
(* The model under well-formed use only: a supported activation, batches   *)
(* of the right width, a supported mode, no reader and no failing tensor   *)
(* operation.                                                              *)
(***************************************************************************)
NextUpdates ==
    \/ \E al \in AlphaValues, bi \in BiasValues : Construct("tanh", al, bi)
    \/ \E d \in GoodData : InitPhaseCall(d)
    \/ InitPhaseP
    \/ InitPhaseBeta
    \/ \E d \in GoodData, m \in {"batch", "sample"} : SeqPhaseCall(d, m)
    \/ CalcPBatch
    \/ CalcBetaBatch
    \/ CalcPSample
    \/ CalcBetaSample

SpecUpdates == Init /\ [][NextUpdates]_vars

(***************************************************************************)
(* The training driver, train-ps-elm-ae.py: main runs get_args,            *)
(* load_and_split_data, pselmae_init and train_model, one after the other, *)
(* in one thread, so each call it makes on the model is one step here.     *)
(***************************************************************************)
DEFAULT_BATCH_SIZE == 10

DEFAULT_SEQ_PROP == <<99, 100>>

\* len(train_data), the rows load_data returns.
MaxData == 4

\* Command lines: --mode, --batch-size (<<>> when absent), --seq-prop
\* (DEFAULT_SEQ_PROP when absent), and --save-results given without
\* --result-strategy.
ModeArgs == {"sample", "batch", "online"}

BatchSizeArgs == {<<>>} \cup {<<n>> : n \in 0..MaxRows}

SeqPropArgs ==
    {R(0), <<1, 200>>, <<1, 100>>, <<1, 2>>, DEFAULT_SEQ_PROP, <<199, 200>>, R(1)}

\* Order of finite rationals.
RLeq(a, b) == a[1] * b[2] <= b[1] * a[2]

\* int(x * n) for a rational x >= 0.
IntOfProduct(x, n) == (x[1] * n) \div x[2]

\* torch.sigmoid, quantised to quarters like tanh.
sigmoid(a) ==
    IF a[1] >= 2 * a[2] THEN One
    ELSE IF a[1] >= a[2] THEN Rat(3, 4)
    ELSE IF a[1] > -a[2] THEN Rat(1, 2)
    ELSE IF a[1] > -2 * a[2] THEN Rat(1, 4)
    ELSE Zero

\* The hidden representation of the driver's model, built with 'sigmoid'.
project_sigmoid(d, al, bi) ==
    LET Z == matmul(d, al)
    IN  Mat([i \in 1..Rows(Z) |-> [j \in 1..Cols(Z) |-> sigmoid(RAdd(Z[i][j], bi[j]))]],
            Rows(Z), Cols(Z))

\* The rows with the numbers ks, as one tensor.
RowsOf(ks) == ToSeq([k \in 1..Len(ks) |-> RowAt(ks[k])], Len(ks))

\* A DataLoader's batches over the rows ks: batch_size rows each, the last
\* batch the rows left over.
RECURSIVE DataLoader(_, _)
DataLoader(ks, batch_size) ==
    IF Len(ks) = 0 THEN <<>>
    ELSE IF Len(ks) <= batch_size THEN <<RowsOf(ks)>>
    ELSE <<RowsOf(SubSeq(ks, 1, batch_size))>>
             \o DataLoader(SubSeq(ks, batch_size + 1, Len(ks)), batch_size)

\* The rows lo..hi, in order or reversed: two of the orders a shuffle gives.
Shuffled(lo, hi, rev) ==
    ToSeq([k \in 1..(hi - lo + 1) |-> IF rev THEN hi - k + 1 ELSE lo + k - 1],
          hi - lo + 1)

\* The driver's record of a call it made on the model.
Call(op, m, d) == [op |-> op, mode |-> m, rows |-> Rows(d)]

\* The driver stops: exit_with_error, argparse's own exit, or an exception
\* nothing catches.
Exit ==
    /\ drv_pc' = "exit"
    /\ UNCHANGED <<train_loader, seq_loader, batch_idx, called>>

\* Everything of the model object and of the calls on it.
model_state == <<fields, frame, calls, last, out, err, history, aliasing>>

\* get_args taking --batch-size in sample mode as well.
GetArgs_KeepsBatchSize(m, bs, sp, no_strategy) ==
    /\ drv_pc = "main"
    /\ args' = [given |-> [mode |-> m, batch_size |-> bs, seq_prop |-> sp,
                           no_strategy |-> no_strategy],
                mode |-> m,
                batch_size |-> IF bs = <<>> THEN DEFAULT_BATCH_SIZE ELSE bs[1],
                seq_prop |-> sp]
    /\ IF m \notin {"sample", "batch"}
       THEN Exit
       ELSE IF RLeq(sp, Zero) \/ RLeq(One, sp)
       THEN Exit
       ELSE IF no_strategy
       THEN Exit
       ELSE /\ drv_pc' = "load_and_split_data"
            /\ UNCHANGED <<train_loader, seq_loader, batch_idx, called>>
    /\ UNCHANGED model_state

\* get_args, lines 433-535.  given keeps the command line.
GetArgs(m, bs, sp, no_strategy) ==
    /\ drv_pc = "main"
    /\ args' = [given |-> [mode |-> m, batch_size |-> bs, seq_prop |-> sp,
                           no_strategy |-> no_strategy],
                mode |-> m,
                batch_size |-> IF m = "batch"
                               THEN IF bs = <<>> THEN DEFAULT_BATCH_SIZE ELSE bs[1]
                               ELSE 1,
                seq_prop |-> sp]
    /\ IF m \notin {"sample", "batch"}
       THEN Exit
       ELSE IF m # "batch" /\ bs # <<>>
       THEN Exit
       ELSE IF RLeq(sp, Zero) \/ RLeq(One, sp)
       THEN Exit
       ELSE IF no_strategy
       THEN Exit
       ELSE /\ drv_pc' = "load_and_split_data"
            /\ UNCHANGED <<train_loader, seq_loader, batch_idx, called>>
    /\ UNCHANGED model_state

\* load_and_split_data, lines 118-120: the batch size is 1 in sample mode.
SeqBatchSize(m, batch_size) == IF m = "sample" THEN 1 ELSE batch_size

\* load_and_split_data giving the initial training loader the sequential
\* batch size instead of train_size.
LoadAndSplitData_TrainBatched(rev) ==
    /\ drv_pc = "load_and_split_data"
    /\ LET batch_size == SeqBatchSize(args.mode, args.batch_size)
           seq_size == IntOfProduct(args.seq_prop, MaxData)
           train_size == MaxData - seq_size
       IN  IF seq_size <= 0 \/ seq_size >= MaxData \/ batch_size <= 0
           THEN Exit
           ELSE /\ train_loader' = DataLoader(Shuffled(1, train_size, rev), batch_size)
                /\ seq_loader' = DataLoader(Shuffled(train_size + 1, MaxData, rev),
                                            batch_size)
                /\ drv_pc' = "pselmae_init"
                /\ UNCHANGED <<batch_idx, called>>
    /\ UNCHANGED <<args, model_state>>

\* load_and_split_data, lines 115-151.  train_test_split raises unless
\* 0 < seq_size < len(train_data); DataLoader raises unless batch_size > 0.
LoadAndSplitData(rev) ==
    /\ drv_pc = "load_and_split_data"
    /\ LET batch_size == SeqBatchSize(args.mode, args.batch_size)
           seq_size == IntOfProduct(args.seq_prop, MaxData)
           train_size == MaxData - seq_size
       IN  IF seq_size <= 0 \/ seq_size >= MaxData \/ batch_size <= 0
           THEN Exit
           ELSE /\ train_loader' = DataLoader(Shuffled(1, train_size, rev), train_size)
                /\ seq_loader' = DataLoader(Shuffled(train_size + 1, MaxData, rev),
                                            batch_size)
                /\ drv_pc' = "pselmae_init"
                /\ UNCHANGED <<batch_idx, called>>
    /\ UNCHANGED <<args, model_state>>

\* pselmae_init, lines 87-92: the model is built with 'sigmoid'.
PselmaeInit(al, bi) ==
    /\ drv_pc = "pselmae_init"
    /\ built' = TRUE
    /\ activation_func' = "sigmoid"
    /\ alpha' = al
    /\ bias' = bi
    /\ p' = zeros(n_hidden_nodes, n_hidden_nodes)
    /\ beta' = zeros(n_hidden_nodes, n_input_nodes)
    /\ alpha_0' = al
    /\ bias_0' = bi
    /\ beta_id' = 1
    /\ last' = Step("__init__", <<>>, "sigmoid")
    /\ out' = <<>>
    /\ err' = "none"
    /\ drv_pc' = "train_init"
    /\ batch_idx' = 1
    /\ UNCHANGED <<frame, calls, p_pre, beta_pre, kept,
                   args, train_loader, seq_loader, called>>

\* A call the driver made on the model raised: nothing catches it.
Uncaught(op, d, m, e) ==
    /\ drv_pc' = "exit"
    /\ last' = Step(op, d, m)
    /\ out' = <<>>
    /\ err' = e
    /\ UNCHANGED <<p, beta, beta_id, batch_idx, called>>

\* train_init, lines 162-210: one turn of its loop over train_loader, that
\* is init_phase(data) and then predict(data).
TrainInit ==
    /\ drv_pc = "train_init"
    /\ LET d == train_loader[batch_idx]
           h == project_sigmoid(d, alpha, bias)
           P1 == init_p(h)
       IN  IF Cols(d) # n_input_nodes \/ Cols(h) # n_hidden_nodes \/ Rows(h) # Rows(d)
           THEN Uncaught("init_phase", d, "", "AssertionError")
           ELSE /\ p' = P1
                /\ beta' = init_beta(P1, h, d)
                /\ beta_id' = beta_id + 1
                /\ called' = Append(called, Call("init_phase", "", d))
                /\ last' = Step("predict", d, "")
                /\ out' = matmul(h, beta')
                /\ err' = "none"
                /\ IF batch_idx < Len(train_loader)
                   THEN drv_pc' = "train_init" /\ batch_idx' = batch_idx + 1
                   ELSE /\ drv_pc' = IF Len(seq_loader) = 0 THEN "done"
                                     ELSE "train_sequential"
                        /\ batch_idx' = 1
    /\ p_pre' = p /\ beta_pre' = beta
    /\ calls' = calls + 1
    /\ UNCHANGED <<built, activation_func, alpha, bias, frame, alpha_0, bias_0,
                   kept, args, train_loader, seq_loader>>

\* train_sequential, lines 224-257: one turn of its loop over seq_loader,
\* that is seq_phase(data, mode) and then predict(data).
TrainSequential ==
    /\ drv_pc = "train_sequential"
    /\ LET d == seq_loader[batch_idx]
           m == args.mode
           h == project_sigmoid(d, alpha, bias)
           ok == IF m = "batch"
                 THEN Cols(h) = n_hidden_nodes /\ Cols(d) = n_input_nodes
                 ELSE Cols(h) = n_hidden_nodes
           P1 == IF m = "batch" THEN calc_p_batch(p, Rows(d), h)
                 ELSE calc_p_sample(p, Transpose(h))
           Beta1 == IF m = "batch" THEN calc_beta_batch(P1, beta, d, h)
                    ELSE calc_beta_sample(P1, beta, d, Transpose(h))
       IN  IF m \notin {"batch", "sample"}
           THEN Uncaught("seq_phase", d, m, "ValueError")
           ELSE IF ~ok
           THEN Uncaught("seq_phase", d, m, "AssertionError")
           ELSE IF m = "sample" /\ ~calc_p_sample_ok(p, Transpose(h))
           THEN Uncaught("seq_phase", d, m, "RuntimeError")
           ELSE /\ p' = P1
                /\ beta' = Beta1
                /\ beta_id' = beta_id
                /\ called' = Append(called, Call("seq_phase", m, d))
                /\ last' = Step("predict", d, "")
                /\ out' = matmul(h, beta')
                /\ err' = "none"
                /\ IF batch_idx < Len(seq_loader)
                   THEN drv_pc' = "train_sequential" /\ batch_idx' = batch_idx + 1
                   ELSE drv_pc' = "done" /\ batch_idx' = batch_idx
    /\ p_pre' = p /\ beta_pre' = beta
    /\ calls' = calls + 1
    /\ UNCHANGED <<built, activation_func, alpha, bias, frame, alpha_0, bias_0,
                   kept, args, train_loader, seq_loader>>

NextTrain ==
    \/ \E m \in ModeArgs, bs \in BatchSizeArgs, sp \in SeqPropArgs,
          no_strategy \in BOOLEAN : GetArgs(m, bs, sp, no_strategy)
    \/ \E rev \in BOOLEAN : LoadAndSplitData(rev)
    \/ \E al \in AlphaValues, bi \in BiasValues : PselmaeInit(al, bi)
    \/ TrainInit
    \/ TrainSequential

SpecTrain == Init /\ [][NextTrain]_vars

(***************************************************************************)
(* Properties                                                              *)
(***************************************************************************)
InitPcs == {"init_p", "init_beta"}

SeqPcs == {"calc_p_batch", "calc_beta_batch", "calc_p_sample", "calc_beta_sample"}

UpdateOps == {"init_phase", "seq_phase"}

ReadOps == {"predict", "encoded_representation"}

\* P and Beta as a completed init_phase call on the frame's data leaves them.
InitPost == <<init_p(H), init_beta(init_p(H), H, data)>>

\* P and Beta as a completed seq_phase call on the frame's data leaves them.
SeqPost ==
    IF mode = "batch"
    THEN LET P1 == calc_p_batch(p_pre, Rows(data), H)
         IN  <<P1, calc_beta_batch(P1, beta_pre, data, H)>>
    ELSE LET P1 == calc_p_sample(p_pre, Transpose(H))
         IN  <<P1, calc_beta_sample(P1, beta_pre, data, Transpose(H))>>

\* C1: init_phase commits P and Beta as one atomic transition: in every state
\* of an init_phase call the pair (P, Beta) is either the pair the call found
\* or the pair the call leaves, never the new P with the old Beta.
C1_InitPhaseAtomic ==
    pc \in InitPcs => <<p, beta>> = <<p_pre, beta_pre>> \/ <<p, beta>> = InitPost

\* C2: a predict call interleaved with a seq_phase call, in batch or sample
\* mode, finds either the pair (P, Beta) the call found or the pair the call
\* leaves, never the new P with the old Beta.
C2_SeqPhaseAtomic ==
    (pc \in SeqPcs /\ last.op = "predict") =>
        <<p, beta>> = <<p_pre, beta_pre>> \/ <<p, beta>> = SeqPost

\* C3: an init_phase or seq_phase call that ends by raising, wherever in the
\* call the failure occurs, leaves P and Beta as the call found them.
C3_NoPartialCommitOnError ==
    (pc = "idle" /\ last.op \in UpdateOps /\ err # "none") =>
        p = p_pre /\ beta = beta_pre

\* C4: an init_phase or seq_phase (batch or sample) call given data whose
\* width is not input_dim is rejected by an explicit precondition check,
\* assert_cond, before any mutation: it raises AssertionError and leaves P
\* and Beta unchanged.
C4_WidthRejectedByCheck ==
    (/\ pc = "idle"
     /\ last.op \in UpdateOps
     /\ last.arg \in {"", "batch", "sample"}
     /\ Cols(last.data) # n_input_nodes) =>
        err = "AssertionError" /\ p = p_pre /\ beta = beta_pre

\* C5: seq_phase with a mode string other than "batch" or "sample" raises and
\* returns nothing, raises the configuration error ValueError whenever the
\* data can be projected, leaves P and Beta unchanged, and never runs an
\* update under another mode.
C5_UnsupportedModeFails ==
    /\ (pc = "idle" /\ last.op = "seq_phase" /\ last.arg \notin {"batch", "sample"}) =>
           /\ err # "none"
           /\ out = <<>>
           /\ Cols(last.data) = n_input_nodes => err = "ValueError"
           /\ p = p_pre /\ beta = beta_pre
    /\ pc \in SeqPcs => mode \in {"batch", "sample"}

\* C5 witness: after an init_phase has set P and Beta, a seq_phase call with
\* an unsupported mode has raised ValueError.
C5_Witness ==
    /\ pc = "idle" /\ last.op = "seq_phase" /\ last.arg = "online"
    /\ err = "ValueError"
    /\ p # zeros(n_hidden_nodes, n_hidden_nodes)
    /\ beta # zeros(n_hidden_nodes, n_input_nodes)

\* C6: construction succeeds for the activation names sigmoid and tanh and
\* fails with a configuration error for every other name.
C6_ActivationNames ==
    last.op = "__init__" =>
        IF last.arg \in {"sigmoid", "tanh"}
        THEN built /\ err = "none"
        ELSE ~built /\ err = "ValueError"

\* C7: after any sequence of init_phase, seq_phase, predict and
\* encoded_representation calls, also calls that raise, alpha and bias are
\* the values the constructor gave them.
C7_ProjectionFixed == built => alpha = alpha_0 /\ bias = bias_0

\* C7 witness: a seq_phase call has raised after it changed P.
C7_Witness ==
    /\ built /\ pc = "idle" /\ last.op = "seq_phase" /\ err # "none"
    /\ p # p_pre

\* C8: a predict or encoded_representation step leaves P, Beta, alpha and
\* bias unchanged, and a predict that directly follows a predict of the same
\* input returns the same output.
C8_ReadsArePure ==
    [][/\ last'.op \in ReadOps => fields' = fields
       /\ last'.again => out' = out]_vars

\* C8 witness: two successive predict calls on one input have returned, with
\* Beta set by an update.
C8_Witness ==
    /\ last.op = "predict" /\ last.again
    /\ beta # zeros(n_hidden_nodes, n_input_nodes)

\* States from which the environment makes the next init_phase or seq_phase
\* call.
Callable == built /\ pc = "idle" /\ InRange(p) /\ InRange(beta)

\* States the constructor or a step that changed P or Beta has just produced.
\* Every pair (P, Beta) of a Callable state is the pair of such a state.
Fresh == last.op = "__init__" \/ (last.op \in UpdateOps /\ <<p, beta>> # <<p_pre, beta_pre>>)

\* C9: from the same P and Beta, seq_phase([x], batch) and seq_phase(x, sample)
\* leave the same P and the same Beta, for every single row x; and every
\* completed seq_phase call on a single row left what the other mode would
\* have left.
C9_SingleRowEquivalence ==
    /\ (Callable /\ Fresh) =>
           \A x \in RowValues :
               seq_batch(p, beta, <<x>>, alpha, bias)
                   = seq_sample(p, beta, <<x>>, alpha, bias)
    /\ (/\ pc = "idle" /\ last.op = "seq_phase" /\ err = "none"
        /\ Rows(last.data) = 1) =>
           /\ <<p, beta>> = seq_batch(p_pre, beta_pre, last.data, alpha, bias)
           /\ <<p, beta>> = seq_sample(p_pre, beta_pre, last.data, alpha, bias)

\* C9 witness: a sample-mode call on one row has completed and changed P and
\* Beta.
C9_Witness ==
    /\ pc = "idle" /\ last.op = "seq_phase" /\ last.arg = "sample" /\ err = "none"
    /\ Rows(last.data) = 1
    /\ p # p_pre /\ beta # beta_pre

\* C10: from the same P and Beta, seq_phase in sample mode on the rows
\* x1..xn one after the other leaves the same P and Beta as seq_phase in
\* batch mode once on the stacked matrix [x1; ...; xn].
C10_SequentialDecomposition ==
    (Callable /\ Fresh) =>
        \A n \in 2..MaxRows : \A d \in [1..n -> RowValues] :
            seq_sample_each(p, beta, d, n, alpha, bias)
                = seq_batch(p, beta, d, alpha, bias)

\* C10 witness: an update has set P and Beta, and a batch of MaxRows rows,
\* not all the same, changes both.
C10_Witness ==
    /\ Callable /\ last.op = "seq_phase" /\ err = "none" /\ p # p_pre
    /\ \E d \in [1..MaxRows -> RowValues] :
          /\ \E i, j \in 1..MaxRows : d[i] # d[j]
          /\ seq_batch(p, beta, d, alpha, bias)[1] # p
          /\ seq_batch(p, beta, d, alpha, bias)[2] # beta

\* C11: P equals its transpose in every state of a constructed model: after
\* init_phase, after every seq_phase call in batch or sample mode, and at
\* every statement in between.
C11_PSymmetric == built => p = Transpose(p)

\* C11 witness: after an init_phase, a seq_phase call has completed and
\* changed P, and P has a non-zero entry off the diagonal.
C11_Witness ==
    /\ built /\ pc = "idle" /\ last.op = "seq_phase" /\ err = "none"
    /\ p_pre # zeros(n_hidden_nodes, n_hidden_nodes)
    /\ p # p_pre
    /\ p[1][2] # Zero

\* C12: init_phase on data of the right width is rejected by no check,
\* whatever P and Beta it finds, and a completed call leaves
\* P = pinv(H^T H) and Beta = P H^T data with H = project(data), computed
\* from the data and the projection alone, and returns that Beta.
C12_InitPhaseResult ==
    (pc = "idle" /\ last.op = "init_phase") =>
        /\ Cols(last.data) = n_input_nodes => err # "AssertionError"
        /\ err = "none" =>
               LET h == project(last.data, alpha, bias)
                   P1 == pinv(matmul(Transpose(h), h))
               IN  /\ p = P1
                   /\ beta = matmul(matmul(P1, Transpose(h)), last.data)
                   /\ out = beta

\* C12 witness: an init_phase call has completed on a model whose P and Beta
\* earlier calls had set, and has changed both.
C12_Witness ==
    /\ pc = "idle" /\ last.op = "init_phase" /\ err = "none"
    /\ p_pre # zeros(n_hidden_nodes, n_hidden_nodes)
    /\ beta_pre # zeros(n_hidden_nodes, n_input_nodes)
    /\ p # p_pre /\ beta # beta_pre

\* C13: in a run of the driver the first call on the model is init_phase,
\* every later call is seq_phase, so init_phase is called at most once and
\* before every seq_phase; it has been called exactly once when
\* train_sequential begins and when train_model returns; and every
\* seq_phase call carries the mode get_args returned.
C13_OneInitThenSeq ==
    /\ \A k \in 1..Len(called) :
           /\ called[k].op = "init_phase" <=> k = 1
           /\ called[k].op = "seq_phase" <=> k > 1
           /\ k > 1 => called[k].mode = args.mode
    /\ drv_pc \in {"train_sequential", "done"} =>
           Cardinality({k \in 1..Len(called) : called[k].op = "init_phase"}) = 1

\* C13 witness: train_model has returned after init_phase and at least two
\* seq_phase calls in batch mode.
C13_Witness ==
    /\ drv_pc = "done"
    /\ args.mode = "batch"
    /\ Len(called) >= 3

\* C14: a get_args step on a command line that is otherwise in order exits
\* exactly when --seq-prop lies outside 0.01 .. 0.99, both ends included.
C14_SeqPropRange ==
    [][(/\ drv_pc = "main" /\ drv_pc' # "main"
        /\ args'.given.mode \in {"sample", "batch"}
        /\ (args'.given.mode = "batch" \/ args'.given.batch_size = <<>>)
        /\ ~args'.given.no_strategy) =>
           (drv_pc' = "exit" <=>
                ~(RLeq(<<1, 100>>, args'.seq_prop) /\ RLeq(args'.seq_prop, <<99, 100>>)))]_vars

\* The Beta the update formula gives from P, the Beta the call found and the
\* call's data d: Beta_old + P H^T (d - H Beta_old).
BetaFrom(P, d) ==
    LET h == project(d, alpha, bias)
    IN  MAdd(beta_pre, matmul(matmul(P, Transpose(h)), MSub(d, matmul(h, beta_pre))))

\* C15: in a seq_phase call, batch or sample, P is updated first: when the
\* call reaches its Beta update P is already the new P and Beta is still the
\* Beta the call found; and a completed call leaves
\* Beta_old + P_new H^T (data - H Beta_old).
C15_BetaUsesNewP ==
    /\ pc \in {"calc_beta_batch", "calc_beta_sample"} =>
           /\ beta = beta_pre
           /\ p = SeqPost[1]
    /\ (pc = "idle" /\ last.op = "seq_phase" /\ err = "none") =>
           beta = BetaFrom(p, last.data)

\* C15 witness: a seq_phase call has completed and the same formula with the
\* P the call found gives another Beta.
C15_Witness ==
    /\ pc = "idle" /\ last.op = "seq_phase" /\ err = "none"
    /\ beta # beta_pre
    /\ beta # BetaFrom(p_pre, last.data)

\* C16: in sample mode every batch of the sequential loader, and so every
\* batch the driver hands to seq_phase, has exactly one row;
\* load_and_split_data makes the sequential batch size 1 whatever batch
\* size it is given; and get_args exits when --batch-size is given in
\* sample mode.
C16_SampleBatchesOneRow ==
    /\ \A k \in 1..Len(called) : called[k].mode = "sample" => called[k].rows = 1
    /\ drv_pc # "main" =>
           /\ args.mode = "sample" =>
                  \A k \in 1..Len(seq_loader) : Rows(seq_loader[k]) = 1
           /\ (args.given.mode = "sample" /\ args.given.batch_size # <<>>) =>
                  drv_pc = "exit"
    /\ \A b \in 0..DEFAULT_BATCH_SIZE : SeqBatchSize("sample", b) = 1

\* C16 witness: train_model has returned in sample mode after at least two
\* seq_phase calls.
C16_Witness ==
    /\ drv_pc = "done"
    /\ args.mode = "sample"
    /\ Len(called) >= 3
    /\ called[Len(called)].op = "seq_phase"

\* C17: while self.__beta is still the tensor the constructor made, that is
\* while no init_phase has run, P and Beta are the zero matrices and predict
\* returns the zero reconstruction, whatever seq_phase calls were made; and
\* a seq_phase call made in that state, with a batch torch.div can
\* broadcast over, returns without error.
C17_UninitializedStaysZero ==
    (built /\ beta_id = 1 /\ pc \notin InitPcs) =>
        /\ p = zeros(n_hidden_nodes, n_hidden_nodes)
        /\ beta = zeros(n_hidden_nodes, n_input_nodes)
        /\ \A x \in RowValues :
               predict(<<x>>, alpha, bias, beta) = zeros(1, n_input_nodes)
        /\ (/\ pc = "idle" /\ last.op = "seq_phase"
            /\ (last.arg = "sample" => Rows(last.data) \in {1, n_hidden_nodes})) =>
               err = "none" /\ out = beta

\* C17 witness: MaxCalls seq_phase calls, the latest a batch of several
\* rows, have returned on a model init_phase never ran on.
C17_Witness ==
    /\ built /\ beta_id = 1 /\ pc = "idle"
    /\ calls = MaxCalls
    /\ last.op = "seq_phase" /\ last.arg = "batch" /\ err = "none"
    /\ Rows(last.data) > 1

\* C18: the value init_phase or seq_phase returns is the tensor self.__beta
\* is bound to.  While self.__beta stays bound to it, the kept value shows
\* the model's Beta; a completed seq_phase call adds to that tensor in place,
\* so the kept value follows; a completed init_phase call binds self.__beta
\* to a new tensor, and a value kept from before stays as it was from then
\* on.
C18_ReturnedBetaIsLive ==
    [][/\ (kept'.id # 0 /\ kept'.id = beta_id') => kept'.val = beta'
       /\ (pc \in {"calc_beta_batch", "calc_beta_sample"} /\ pc' = "idle"
              /\ err' = "none") =>
              /\ beta_id' = beta_id
              /\ kept.id = beta_id => kept'.id = beta_id'
       /\ (pc = "init_beta" /\ pc' = "idle" /\ err' = "none") =>
              /\ beta_id' # beta_id
              /\ kept.id # 0 => kept' = kept /\ kept'.id # beta_id'
       /\ (kept.id # 0 /\ kept.id # beta_id) => kept' = kept]_vars

\* C18 witness: the value an init_phase call returned shows the Beta a later
\* seq_phase call has changed.
C18_Witness ==
    /\ pc = "idle" /\ last.op = "seq_phase" /\ err = "none"
    /\ calls = 2 /\ beta_id = 2
    /\ kept.id = beta_id
    /\ beta # beta_pre
    /\ kept.val = beta
====
